---- MODULE Spec2Model ----
(***************************************************************************)
(* Model of the Discord bot in src/main.py: the catalog built from the CSV *)
(* at import time (lines 17-36), the "car" command find_car (lines 99-199) *)
(* with its brand wait and its model-step loop racing a message wait       *)
(* against a reaction wait, and the image resolver get_image_url (40-73).  *)
(*                                                                         *)
(* Text that the code inspects character by character (message contents,   *)
(* make ids, trim ids, file titles) is a sequence of one-character         *)
(* strings; names that the code only passes around are TLA+ strings.       *)
(* Calls to the Discord API (send, edit, add/remove reaction) succeed.     *)
(***************************************************************************)
EXTENDS Integers, Sequences, FiniteSets, TLC

VARIABLES
    car_brands,        \* ordered dict make -> make_id, as a sequence of <<make, make_id>>
    car_models,        \* defaultdict(list): make -> sequence of [model, year, trim_id]
    pc,                \* per flow: where find_car is suspended
    brands,            \* per flow: the rendered brand list (line 102)
    selected_make_id,  \* per flow: line 112
    selected_brand,    \* per flow: line 113
    models,            \* per flow: line 124
    pages,             \* per flow: line 125
    current_page,      \* per flow: lines 127, 171, 173
    rendered,          \* per flow: the "Options" field of the model-list message
    selected_trim_id,  \* per flow: line 157
    selected_model,    \* per flow: line 159
    selected_year,     \* per flow: line 159
    msgTask,           \* per flow: the bot.wait_for('message', ...) of the cycle
    reactTask,         \* per flow: the bot.wait_for('reaction_add', ...) of the cycle
    elapsed,           \* per flow: seconds since the waits of the cycle were created
    firstDone,         \* per flow: which wait of the cycle completed first
    result,            \* per flow: what the last wait cycle handed to the flow
    lastSent,          \* per flow: the last message posted with ctx.send
    lastCall,          \* per flow: the last Discord/HTTP call the flow made
    listPosts,         \* per flow: number of model-list messages posted
    image_url,         \* per flow: line 189
    resolverCalls,     \* per flow: number of calls of get_image_url
    resolverArgs,      \* per flow: arguments of the call of get_image_url
    requests,          \* per flow: number of session.get requests issued (line 54)
    response,          \* per flow: what the search request came back with
    inputs,            \* per flow: the latest messages of the requesting user, oldest first
    event,             \* the event Discord dispatched last, where a specification logs it
    sent               \* number of events dispatched, where a specification counts them

vars == <<car_brands, car_models, pc, brands, selected_make_id, selected_brand,
          models, pages, current_page, rendered, selected_trim_id, selected_model,
          selected_year, msgTask, reactTask, elapsed, firstDone, result, lastSent,
          lastCall, listPosts, image_url, resolverCalls, resolverArgs, requests,
          response, inputs, event, sent>>

----------------------------------------------------------------------------
(* Bounds and program constants *)

\* paginate's default page_size (line 95)
PageSize == 10

\* timeout=30 of every bot.wait_for (lines 111, 141, 142)
TIMEOUT == 30

\* seconds that pass in one step of the clock
TickLen == 15

\* largest number of trims of the long brand in a catalog
MaxTrims == 21

\* messages the requesting user sends during one flow of the end-to-end example
MaxInputs == 3

\* events the users send during one flow where their number is limited
MaxSent == 5

\* HTTP success status tested at line 56
StatusOK == 200

----------------------------------------------------------------------------
(* Text *)

Digits == {"0", "1", "2", "3", "4", "5", "6", "7", "8", "9"}

Whitespace == {" "}

DigitVal(ch) ==
    CASE ch = "0" -> 0 [] ch = "1" -> 1 [] ch = "2" -> 2 [] ch = "3" -> 3
      [] ch = "4" -> 4 [] ch = "5" -> 5 [] ch = "6" -> 6 [] ch = "7" -> 7
      [] ch = "8" -> 8 [] ch = "9" -> 9

DigitChar(d) ==
    CASE d = 0 -> "0" [] d = 1 -> "1" [] d = 2 -> "2" [] d = 3 -> "3"
      [] d = 4 -> "4" [] d = 5 -> "5" [] d = 6 -> "6" [] d = 7 -> "7"
      [] d = 8 -> "8" [] d = 9 -> "9"

\* str.isdigit(): non-empty and every character a digit
IsDigit(s) == Len(s) > 0 /\ \A i \in 1..Len(s) : s[i] \in Digits

RECURSIVE LStrip(_)
LStrip(s) == IF s # <<>> /\ Head(s) \in Whitespace THEN LStrip(Tail(s)) ELSE s

RECURSIVE RStrip(_)
RStrip(s) ==
    IF s # <<>> /\ s[Len(s)] \in Whitespace THEN RStrip(SubSeq(s, 1, Len(s) - 1)) ELSE s

\* str.strip()
Strip(s) == RStrip(LStrip(s))

\* int(s) of a digit string
RECURSIVE StrToInt(_)
StrToInt(s) ==
    IF s = <<>> THEN 0 ELSE 10 * StrToInt(SubSeq(s, 1, Len(s) - 1)) + DigitVal(s[Len(s)])

\* str(n) of a natural number
RECURSIVE NatToStr(_)
NatToStr(n) ==
    IF n < 10 THEN <<DigitChar(n)>> ELSE NatToStr(n \div 10) \o <<DigitChar(n % 10)>>

----------------------------------------------------------------------------
(* The catalog: lines 17-36 *)

\* the value of a name that is not (yet) bound, for names and for text
None == "None"
NoText == <<"None">>

Row(make, make_id, model, year, trim_id) ==
    [make |-> make, make_id |-> make_id, model |-> model, year |-> year, trim_id |-> trim_id]

\* The CSV of the end-to-end example: Honda, Civic, 2020 and 2021
HondaRows ==
    << Row("Honda", <<"1">>, "Civic", "2020", <<"1">>),
       Row("Honda", <<"1">>, "Civic", "2021", <<"2">>) >>

AcuraModel(i) == CASE i % 3 = 0 -> "ILX" [] i % 3 = 1 -> "MDX" [] OTHER -> "RDX"
AcuraYear(i) == IF (i \div 3) % 2 = 0 THEN "2015" ELSE "2016"

\* A CSV whose first make (Acura, make id 2) has n trims with the trim ids 3..n+2 and
\* whose second make (Honda, make id 1) has the two trims of HondaRows
TwoMakeRows(n) ==
    [i \in 1..n |-> Row("Acura", <<"2">>, AcuraModel(i), AcuraYear(i), NatToStr(i + 2))]
      \o HondaRows

TrimCounts == {PageSize, PageSize + 1, MaxTrims}

Catalogs == {HondaRows} \cup {TwoMakeRows(n) : n \in TrimCounts}

HasMake(b, make) == \E i \in 1..Len(b) : b[i][1] = make

\* lines 23-33, car_brands: the first make id seen for a make, in file order
RECURSIVE BuildBrands(_, _)
BuildBrands(rows, b) ==
    IF rows = <<>> THEN b
    ELSE BuildBrands(Tail(rows),
                     IF HasMake(b, Head(rows).make) THEN b
                     ELSE Append(b, <<Head(rows).make, Head(rows).make_id>>))

\* sorted(..., key=int(make_id)) is stable: insert after the last entry whose key is <=
RECURSIVE InsertBrand(_, _)
InsertBrand(sorted, e) ==
    IF sorted = <<>> THEN <<e>>
    ELSE IF StrToInt(e[2]) < StrToInt(Head(sorted)[2]) THEN <<e>> \o sorted
         ELSE <<Head(sorted)>> \o InsertBrand(Tail(sorted), e)

\* line 36
RECURSIVE SortBrands(_, _)
SortBrands(b, acc) ==
    IF b = <<>> THEN acc ELSE SortBrands(Tail(b), InsertBrand(acc, Head(b)))

RECURSIVE TrimsOf(_, _)
TrimsOf(rows, make) ==
    IF rows = <<>> THEN <<>>
    ELSE (IF Head(rows).make = make
          THEN <<[model |-> Head(rows).model, year |-> Head(rows).year,
                  trim_id |-> Head(rows).trim_id]>>
          ELSE <<>>) \o TrimsOf(Tail(rows), make)

\* lines 23-33, car_models
BuildModels(rows) ==
    [make \in {rows[i].make : i \in 1..Len(rows)} |-> TrimsOf(rows, make)]

\* car_models[key] of a defaultdict(list): a missing key is inserted with []
DefaultDictGet(d, key) == IF key \in DOMAIN d THEN d[key] ELSE <<>>
DefaultDictAfterGet(d, key) ==
    IF key \in DOMAIN d THEN d ELSE [k \in DOMAIN d \cup {key} |-> IF k = key THEN <<>> ELSE d[k]]

----------------------------------------------------------------------------
(* Helpers of find_car *)

\* invocations of the command; each has its own ctx and its own locals
Flows == {"f1", "f2"}

Users == {"u1", "u2"}
Channels == {"c1", "c2"}

\* ctx.author and ctx.channel of an invocation
CtxAuthor(f) == IF f = "f1" THEN "u1" ELSE "u2"
CtxChannel(f) == "c1"

LeftArrow == <<"left">>
RightArrow == <<"right">>
Emojis == {LeftArrow, RightArrow, <<"other">>}

\* what the users type
Contents ==
    { <<"1">>, <<"2">>, <<"3">>, <<"1", "3">>, <<"2", "0", "2", "0">>,
      <<" ", "1">>, <<"H", "o", "n", "d", "a">>, <<"C", "i", "v", "i", "c">> }

\* a wait of one cycle: not created, pending, completed with a value, timed out
NoTask == [st |-> "none", val |-> <<>>]
PendingTask == [st |-> "pending", val |-> <<>>]
DoneTask(v) == [st |-> "done", val |-> v]
TimedOutTask == [st |-> "timeout", val |-> <<>>]

NoResult == [kind |-> "none", val |-> <<>>]

\* a dispatched event: n is the parity of the number of events logged so far; content
\* is the text of a message or the emoji of a reaction; target is the flow whose
\* model-list message a reaction is on
NoEvent ==
    [n |-> 0, kind |-> "none", user |-> "none", channel |-> "none", content |-> <<>>,
     target |-> "none"]

\* how a specification observes the traffic: the number of replies of the requesting
\* user it remembers, whether it logs the dispatched event, whether it counts the events
Observe(keep, log, count) == [keep |-> keep, log |-> log, count |-> count]

checkAnyAuthor(author, channel, content, f) ==
    channel = CtxChannel(f) /\ IsDigit(content)

\* lines 106-107
check(author, channel, content, f) ==
    author = CtxAuthor(f) /\ channel = CtxChannel(f) /\ IsDigit(content)

\* lines 135-136; onMessage: reaction.message.id == message.id
reaction_check(user, emoji, onMessage, f) ==
    user = CtxAuthor(f) /\ emoji \in {LeftArrow, RightArrow} /\ onMessage

\* lines 95-97: for i in range(0, len(options), page_size): yield options[i:i + page_size]
RECURSIVE PaginateFrom(_, _, _)
PaginateFrom(options, page_size, i) ==
    IF i >= Len(options) THEN <<>>
    ELSE <<SubSeq(options, i + 1, IF i + page_size < Len(options)
                                  THEN i + page_size ELSE Len(options))>>
           \o PaginateFrom(options, page_size, i + page_size)

\* lines 95-97
paginate(options, page_size) == PaginateFrom(options, page_size, 0)

\* line 102: f'{make_id}. {make}' for every brand
RenderBrands(b) == [i \in 1..Len(b) |-> <<b[i][2], ".", b[i][1]>>]

\* lines 129, 177-179: f'{trim_id}. {model} ({year})' for every entry of the page
RenderPage(page) ==
    [i \in 1..Len(page) |-> <<page[i].trim_id, ".", page[i].model, "(", page[i].year, ")">>]

\* pages[current_page]: Python indexes from 0, a negative index counts from the end,
\* an index outside -len..len-1 raises IndexError
IndexOk(pgs, cp) == -Len(pgs) <= cp /\ cp < Len(pgs)
PageAt(pgs, cp) == IF cp >= 0 THEN pgs[cp + 1] ELSE pgs[Len(pgs) + cp + 1]

LookupBrandUnlisted(b, id) == "Unlisted"

\* line 113: next((make for make, make_id in car_brands.items() if make_id == id), None)
RECURSIVE LookupBrand(_, _)
LookupBrand(b, id) ==
    IF b = <<>> THEN None
    ELSE IF Head(b)[2] = id THEN Head(b)[1] ELSE LookupBrand(Tail(b), id)

\* lines 159-160: index of the first entry of the list with this trim id, 0 for StopIteration
RECURSIVE FindTrimFrom(_, _, _)
FindTrimFrom(ms, id, i) ==
    IF i > Len(ms) THEN 0
    ELSE IF ms[i].trim_id = id THEN i ELSE FindTrimFrom(ms, id, i + 1)

FindTrimSkipFirst(ms, id) == FindTrimFrom(ms, id, 2)

\* lines 159-160
FindTrim(ms, id) == FindTrimFrom(ms, id, 1)

SearchVisiblePage(ms, pgs, cp) == PageAt(pgs, cp)

RECURSIVE AllTrims(_)
AllTrims(b) == IF b = <<>> THEN <<>> ELSE car_models[Head(b)[1]] \o AllTrims(Tail(b))

SearchWholeCatalog(ms, pgs, cp) == AllTrims(car_brands)

\* line 160: the generator runs over models, the whole list of the brand, not over
\* pages[current_page]
SearchList(ms, pgs, cp) == ms

InvalidBrandRetries == "brand_wait"

\* line 117: return after the invalid-brand notice
InvalidBrandNext == "done"

InvalidModelReturns == "done"

InvalidModelBreaks == "resolving"

\* line 166: continue after the invalid-model notice
InvalidModelNext == "notice"

ValidModelContinues == "notice"

\* line 162: break out of the loop, on to the call of get_image_url at line 189
ValidModelNext == "resolving"

Repost(n) == n + 1

\* line 180: message.edit changes the posted message, the number of posts stays
EditInPlace(n) == n

NextPageUnclamped(cp, pgs) == cp + 1

\* line 171
NextPage(cp, pgs) == IF cp + 1 < Len(pgs) - 1 THEN cp + 1 ELSE Len(pgs) - 1

PrevPageUnclamped(cp) == cp - 1

\* line 173
PrevPage(cp) == IF cp - 1 > 0 THEN cp - 1 ELSE 0


Waiting(f) == pc[f] \in {"brand_wait", "model_wait"}

\* line 144: the waits of the cycle that have completed (with a value or a TimeoutError)
DoneSet(f) ==
    {t \in {"msg", "react"} :
        (IF t = "msg" THEN msgTask[f] ELSE reactTask[f]).st \in {"done", "timeout"}}

\* line 152: done.pop() takes an arbitrary element of the set
Pop(done) == done

RaisesNever(task) == FALSE

\* line 152: task.result() raises the TimeoutError of a wait that timed out
Raises(task) == task.st = "timeout"

Set(fn, f, v) == [fn EXCEPT ![f] = v]

----------------------------------------------------------------------------
(* get_image_url: lines 40-73 *)

FilePrefix == <<"F", "i", "l", "e", ":">>

UrlTemplate == <<"https://commons.wikimedia.org/wiki/Special:FilePath/">>

\* str.replace(pat, ""): every occurrence of pat, left to right, is removed
RECURSIVE RemoveAll(_, _)
RemoveAll(s, pat) ==
    IF Len(s) < Len(pat) THEN s
    ELSE IF SubSeq(s, 1, Len(pat)) = pat THEN RemoveAll(SubSeq(s, Len(pat) + 1, Len(s)), pat)
         ELSE <<Head(s)>> \o RemoveAll(Tail(s), pat)

\* urllib.parse.quote: letters, digits and _.-~/ are kept, the rest is percent-encoded
PercentCode(ch) ==
    CASE ch = " " -> <<"%", "2", "0">>
      [] ch = ":" -> <<"%", "3", "A">>
      [] ch = "%" -> <<"%", "2", "5">>
      [] OTHER -> <<ch>>

RECURSIVE Quote(_)
Quote(s) == IF s = <<>> THEN <<>> ELSE PercentCode(Head(s)) \o Quote(Tail(s))

Titles == { <<"F", "i", "l", "e", ":", "a", " ", "b", ".", "j", "p", "g">> }

\* what the search request can come back with: a transport failure (an exception of
\* session.get), a body that is not the expected JSON (an exception of response.json()
\* or of data['query']['search']), or a status with the hits of query.search
Responses ==
    {[kind |-> "transport_error", status |-> 0, search |-> <<>>],
     [kind |-> "malformed", status |-> StatusOK, search |-> <<>>],
     [kind |-> "json", status |-> StatusOK, search |-> <<>>],
     [kind |-> "json", status |-> 404, search |-> <<>>]}
    \cup {[kind |-> "json", status |-> st, search |-> <<t>>] : st \in {StatusOK, 404}, t \in Titles}

NoResponse == [kind |-> "none", status |-> 0, search |-> <<>>]

\* the outcome of a call that ends with an exception instead of a value
Raised == <<"raise">>

\* lines 43-69, the body of the try: the URL at line 65, NoText where control falls
\* through to line 72, Raised where session.get, response.json() or a subscript raises
TryBody(resp) ==
    IF resp.kind = "transport_error" THEN Raised
    ELSE IF resp.status = StatusOK
         THEN IF resp.kind = "malformed" THEN Raised
              ELSE IF resp.search # <<>>
                   THEN UrlTemplate \o Quote(RemoveAll(resp.search[1], FilePrefix))
                   ELSE NoText
         ELSE NoText

get_image_url_uncaught(resp) == TryBody(resp)

\* lines 42-73: the returned URL, NoText for None
get_image_url(resp) ==
    \* lines 70-73: except Exception, then return None
    IF TryBody(resp) = Raised THEN NoText ELSE TryBody(resp)

----------------------------------------------------------------------------
(* State after the module is imported and before any command *)

InitWith(rows) ==
    /\ car_brands = SortBrands(BuildBrands(rows, <<>>), <<>>)
    /\ car_models = BuildModels(rows)
    /\ pc = [f \in Flows |-> "idle"]
    /\ brands = [f \in Flows |-> <<>>]
    /\ selected_make_id = [f \in Flows |-> NoText]
    /\ selected_brand = [f \in Flows |-> None]
    /\ models = [f \in Flows |-> <<>>]
    /\ pages = [f \in Flows |-> <<>>]
    /\ current_page = [f \in Flows |-> 0]
    /\ rendered = [f \in Flows |-> <<>>]
    /\ selected_trim_id = [f \in Flows |-> NoText]
    /\ selected_model = [f \in Flows |-> None]
    /\ selected_year = [f \in Flows |-> None]
    /\ msgTask = [f \in Flows |-> NoTask]
    /\ reactTask = [f \in Flows |-> NoTask]
    /\ elapsed = [f \in Flows |-> 0]
    /\ firstDone = [f \in Flows |-> "none"]
    /\ result = [f \in Flows |-> NoResult]
    /\ lastSent = [f \in Flows |-> "none"]
    /\ lastCall = [f \in Flows |-> "none"]
    /\ listPosts = [f \in Flows |-> 0]
    /\ image_url = [f \in Flows |-> NoText]
    /\ resolverCalls = [f \in Flows |-> 0]
    /\ resolverArgs = [f \in Flows |-> <<>>]
    /\ requests = [f \in Flows |-> 0]
    /\ response = [f \in Flows |-> NoResponse]
    /\ inputs = [f \in Flows |-> <<>>]
    /\ event = NoEvent
    /\ sent = 0

Init == \E rows \in Catalogs : InitWith(rows)

\* the end-to-end example: the catalog {Honda: {Civic: {2020, 2021}}}
InitExample == InitWith(HondaRows)

catalogVars == <<car_brands, car_models>>
brandVars == <<selected_make_id, selected_brand, models, pages>>
trimVars == <<selected_trim_id, selected_model, selected_year>>
pageVars == <<current_page, rendered, listPosts>>
taskVars == <<msgTask, reactTask, elapsed, firstDone>>
resolverVars == <<image_url, resolverCalls, resolverArgs, requests, response>>
logVars == <<inputs, event, sent>>

----------------------------------------------------------------------------
(* The environment: users, the clock, the search endpoint *)

\* a user's message is one of the requesting user's replies to flow f
IsInput(f, author, channel) ==
    pc[f] # "idle" /\ author = CtxAuthor(f) /\ channel = CtxChannel(f)

\* the last keep entries of a sequence
LastOf(s, keep) == IF Len(s) <= keep THEN s ELSE SubSeq(s, Len(s) - keep + 1, Len(s))

\* Discord dispatches a 'message' event: every pending message wait whose check accepts
\* it completes with it; a wait that has completed, or a flow that is not waiting, does
\* not see it.  The latest keep replies of the requesting user are remembered, each with
\* the place where the flow was when it was typed and whether its message wait was
\* still pending then.
MessageEvent(author, channel, content, obs) ==
    /\ inputs' = [f \in Flows |->
                    IF IsInput(f, author, channel)
                    THEN LastOf(Append(inputs[f],
                                       [content |-> content, during |-> pc[f],
                                        pending |-> msgTask[f].st = "pending"]), obs.keep)
                    ELSE inputs[f]]
    /\ event' = IF obs.log
                THEN [n |-> 1 - event.n, kind |-> "message", user |-> author,
                      channel |-> channel, content |-> content, target |-> "none"]
                ELSE event
    /\ sent' = IF obs.count THEN sent + 1 ELSE sent
    /\ msgTask' = [f \in Flows |->
                    IF Waiting(f) /\ msgTask[f].st = "pending"
                       /\ check(author, channel, content, f)
                    THEN DoneTask(content) ELSE msgTask[f]]
    /\ firstDone' = [f \in Flows |->
                    IF msgTask'[f] # msgTask[f] /\ firstDone[f] = "none"
                    THEN "msg" ELSE firstDone[f]]
    /\ UNCHANGED <<catalogVars, pc, brands, brandVars, trimVars, pageVars, reactTask,
                   elapsed, result, lastSent, lastCall, resolverVars>>

\* the model-list message of flow f is there to react to
MessageExists(f) == listPosts[f] > 0 /\ pc[f] # "post_models"

\* Discord dispatches a 'reaction_add' event for a reaction on the model-list message of
\* flow target, or on some other message
ReactionEvent(user, emoji, target, obs) ==
    /\ target \in Flows => MessageExists(target)
    /\ event' = IF obs.log
                THEN [n |-> 1 - event.n, kind |-> "reaction", user |-> user,
                      channel |-> "none", content |-> emoji, target |-> target]
                ELSE event
    /\ sent' = IF obs.count THEN sent + 1 ELSE sent
    /\ reactTask' = [f \in Flows |->
                    IF pc[f] = "model_wait" /\ reactTask[f].st = "pending"
                       /\ reaction_check(user, emoji, target = f, f)
                    THEN DoneTask(emoji) ELSE reactTask[f]]
    /\ firstDone' = [f \in Flows |->
                    IF reactTask'[f] # reactTask[f] /\ firstDone[f] = "none"
                    THEN "react" ELSE firstDone[f]]
    /\ UNCHANGED <<catalogVars, pc, brands, brandVars, trimVars, pageVars, msgTask,
                   elapsed, result, lastSent, lastCall, resolverVars, inputs>>

\* Time passes for every waiting flow.  The event loop resumes a flow whose wait has
\* ended long before TickLen seconds are over, so no time passes while one is due.
Tick ==
    /\ \E f \in Flows : Waiting(f) /\ elapsed[f] < TIMEOUT
    /\ \A f \in Flows : Waiting(f) => DoneSet(f) = {}
    /\ elapsed' = [f \in Flows |->
                    IF Waiting(f) /\ elapsed[f] < TIMEOUT
                    THEN elapsed[f] + TickLen ELSE elapsed[f]]
    /\ UNCHANGED <<catalogVars, pc, brands, brandVars, trimVars, pageVars, msgTask,
                   reactTask, firstDone, result, lastSent, lastCall, resolverVars, logVars>>

ExpiresNever(e) == FALSE

\* timeout=30 (lines 111, 141, 142): a wait that has been pending for 30 s expires
Expires(e) == e >= TIMEOUT

\* the timeout=30 of a pending wait expires: the wait ends with asyncio.TimeoutError
TimeoutFire(f, t) ==
    /\ Waiting(f)
    /\ Expires(elapsed[f])
    /\ \/ /\ t = "msg"
          /\ msgTask[f].st = "pending"
          /\ msgTask' = Set(msgTask, f, TimedOutTask)
          /\ UNCHANGED reactTask
       \/ /\ t = "react"
          /\ reactTask[f].st = "pending"
          /\ reactTask' = Set(reactTask, f, TimedOutTask)
          /\ UNCHANGED msgTask
    /\ firstDone' = Set(firstDone, f, IF firstDone[f] = "none" THEN t ELSE firstDone[f])
    /\ UNCHANGED <<catalogVars, pc, brands, brandVars, trimVars, pageVars, elapsed,
                   result, lastSent, lastCall, resolverVars, logVars>>

----------------------------------------------------------------------------
(* find_car: lines 99-199, one action per stretch between two suspensions *)

\* lines 140-144: both waits are created afresh, each with its own timeout=30
NewCycle(f) ==
    /\ msgTask' = Set(msgTask, f, PendingTask)
    /\ reactTask' = Set(reactTask, f, PendingTask)
    /\ elapsed' = Set(elapsed, f, 0)
    /\ firstDone' = Set(firstDone, f, "none")

EndCycleAll(f) ==
    /\ msgTask' = [g \in Flows |-> NoTask]
    /\ reactTask' = [g \in Flows |-> NoTask]
    /\ elapsed' = [g \in Flows |-> 0]
    /\ firstDone' = [g \in Flows |-> "none"]

\* no wait is left: the chosen one is consumed, the pending one cancelled (lines 146-147)
EndCycle(f) ==
    /\ msgTask' = Set(msgTask, f, NoTask)
    /\ reactTask' = Set(reactTask, f, NoTask)
    /\ elapsed' = Set(elapsed, f, 0)
    /\ firstDone' = Set(firstDone, f, "none")

TimeoutAbortSilent(f) ==
    /\ result' = Set(result, f, [kind |-> "timeout", val |-> <<>>])
    /\ pc' = Set(pc, f, "done")
    /\ UNCHANGED <<lastSent, lastCall>>

\* lines 119-122 and 183-186: the timeout notice, and the flow returns
TimeoutAbort(f) ==
    /\ result' = Set(result, f, [kind |-> "timeout", val |-> <<>>])
    /\ lastSent' = Set(lastSent, f, "timeout")
    /\ lastCall' = Set(lastCall, f, "send")
    /\ pc' = Set(pc, f, "done")

\* lines 101-111: the command is invoked, the brand list is sent, the flow waits for a reply
Invoke(f) ==
    /\ pc[f] = "idle"
    /\ brands' = Set(brands, f, RenderBrands(car_brands))
    /\ lastSent' = Set(lastSent, f, "brands")
    /\ lastCall' = Set(lastCall, f, "send")
    /\ pc' = Set(pc, f, "brand_wait")
    /\ msgTask' = Set(msgTask, f, PendingTask)
    /\ elapsed' = Set(elapsed, f, 0)
    /\ firstDone' = Set(firstDone, f, "none")
    /\ UNCHANGED <<catalogVars, brandVars, trimVars, pageVars, reactTask, result,
                   resolverVars, logVars>>

\* lines 111-130: the brand wait has ended
BrandResume(f) ==
    /\ pc[f] = "brand_wait"
    /\ msgTask[f].st \in {"done", "timeout"}
    /\ EndCycle(f)
    /\ IF Raises(msgTask[f])
       THEN /\ TimeoutAbort(f)
            /\ UNCHANGED <<catalogVars, brandVars, pageVars>>
       ELSE LET id == Strip(msgTask[f].val)
                brand == LookupBrand(car_brands, id)
                ms == DefaultDictGet(car_models, brand)
                pgs == paginate(ms, PageSize)
            IN  /\ result' = Set(result, f, [kind |-> "message", val |-> msgTask[f].val])
                /\ selected_make_id' = Set(selected_make_id, f, id)
                /\ IF brand = None
                   THEN \* lines 114-117
                        /\ lastSent' = Set(lastSent, f, "invalid_brand")
                        /\ lastCall' = Set(lastCall, f, "send")
                        /\ pc' = Set(pc, f, InvalidBrandNext)
                        /\ UNCHANGED <<catalogVars, selected_brand, models, pages, pageVars>>
                   ELSE \* lines 118, 124-130
                        /\ selected_brand' = Set(selected_brand, f, brand)
                        /\ car_models' = DefaultDictAfterGet(car_models, brand)
                        /\ models' = Set(models, f, ms)
                        /\ pages' = Set(pages, f, pgs)
                        /\ current_page' = Set(current_page, f, 0)
                        /\ IF ~IndexOk(pgs, 0)
                           THEN \* pages[0] raises IndexError: on_command_error, lines 201-204
                                /\ lastSent' = Set(lastSent, f, "error")
                                /\ lastCall' = Set(lastCall, f, "send")
                                /\ pc' = Set(pc, f, "done")
                                /\ UNCHANGED <<rendered, listPosts>>
                           ELSE /\ rendered' = Set(rendered, f, RenderPage(PageAt(pgs, 0)))
                                /\ listPosts' = Set(listPosts, f, listPosts[f] + 1)
                                /\ lastSent' = Set(lastSent, f, "models")
                                /\ lastCall' = Set(lastCall, f, "send")
                                /\ pc' = Set(pc, f, "post_models")
                        /\ UNCHANGED car_brands
    /\ UNCHANGED <<brands, trimVars, resolverVars, logVars>>

\* lines 130-144: the model list is posted, both reactions are added, the loop starts
ModelsPosted(f) ==
    /\ pc[f] = "post_models"
    /\ lastCall' = Set(lastCall, f, "add_reaction")
    /\ pc' = Set(pc, f, "model_wait")
    /\ NewCycle(f)
    /\ UNCHANGED <<catalogVars, brands, brandVars, trimVars, pageVars, result, lastSent,
                   resolverVars, logVars>>

\* lines 144-186: asyncio.wait has returned with at least one wait completed
ModelResume(f) ==
    /\ pc[f] = "model_wait"
    /\ \E t \in Pop(DoneSet(f)) :
         LET task == IF t = "msg" THEN msgTask[f] ELSE reactTask[f] IN
         IF Raises(task)
         THEN \* lines 183-186
              /\ TimeoutAbort(f)
              /\ UNCHANGED <<trimVars, pageVars, resolverVars>>
         ELSE IF t = "msg"
         THEN \* lines 154-166
              LET id == Strip(task.val)
                  list == SearchList(models[f], pages[f], current_page[f])
                  idx == FindTrim(list, id)
              IN  /\ result' = Set(result, f, [kind |-> "message", val |-> task.val])
                  /\ selected_trim_id' = Set(selected_trim_id, f, id)
                  /\ IF idx > 0
                     THEN \* lines 159-162, 188-189
                          /\ selected_model' = Set(selected_model, f, list[idx].model)
                          /\ selected_year' = Set(selected_year, f, list[idx].year)
                          /\ resolverCalls' = Set(resolverCalls, f, resolverCalls[f] + 1)
                          /\ resolverArgs' = Set(resolverArgs, f,
                                 <<selected_brand[f], list[idx].model, list[idx].year>>)
                          /\ requests' = Set(requests, f, requests[f] + 1)
                          /\ lastCall' = Set(lastCall, f, "get_image_url")
                          /\ pc' = Set(pc, f, ValidModelNext)
                          /\ UNCHANGED <<lastSent, image_url, response>>
                     ELSE \* lines 163-166
                          /\ lastSent' = Set(lastSent, f, "invalid_model")
                          /\ lastCall' = Set(lastCall, f, "send")
                          /\ pc' = Set(pc, f, InvalidModelNext)
                          /\ UNCHANGED <<selected_model, selected_year, resolverVars>>
                  /\ UNCHANGED pageVars
         ELSE \* lines 168-181
              LET cp == IF task.val = RightArrow THEN NextPage(current_page[f], pages[f])
                        ELSE IF task.val = LeftArrow THEN PrevPage(current_page[f])
                        ELSE current_page[f]
              IN  /\ result' = Set(result, f, [kind |-> "reaction", val |-> task.val])
                  /\ current_page' = Set(current_page, f, cp)
                  /\ IF ~IndexOk(pages[f], cp)
                     THEN \* pages[current_page] raises IndexError: on_command_error
                          /\ lastSent' = Set(lastSent, f, "error")
                          /\ lastCall' = Set(lastCall, f, "send")
                          /\ pc' = Set(pc, f, "done")
                          /\ UNCHANGED <<rendered, listPosts>>
                     ELSE /\ rendered' = Set(rendered, f, RenderPage(PageAt(pages[f], cp)))
                          /\ listPosts' = Set(listPosts, f, EditInPlace(listPosts[f]))
                          /\ lastCall' = Set(lastCall, f, "edit")
                          /\ pc' = Set(pc, f, "turning")
                          /\ UNCHANGED lastSent
                  /\ UNCHANGED <<trimVars, resolverVars>>
    /\ EndCycle(f)
    /\ UNCHANGED <<catalogVars, brands, brandVars, logVars>>

\* lines 180-181, 138-144: the edit and the removal of the reaction are through
TurnDone(f) ==
    /\ pc[f] = "turning"
    /\ lastCall' = Set(lastCall, f, "remove_reaction")
    /\ pc' = Set(pc, f, "model_wait")
    /\ NewCycle(f)
    /\ UNCHANGED <<catalogVars, brands, brandVars, trimVars, pageVars, result, lastSent,
                   resolverVars, logVars>>

\* lines 165-166, 138-144: the invalid-model notice is out, the loop continues
NoticeDone(f) ==
    /\ pc[f] = "notice"
    /\ pc' = Set(pc, f, "model_wait")
    /\ NewCycle(f)
    /\ UNCHANGED <<catalogVars, brands, brandVars, trimVars, pageVars, result, lastSent,
                   lastCall, resolverVars, logVars>>

\* lines 54-73, 189-199: the search request comes back, get_image_url returns, the flow
\* sends the notice or the result embed
ImageResponse(f, resp) ==
    /\ pc[f] = "resolving"
    /\ response' = Set(response, f, resp)
    /\ LET url == get_image_url(resp)
       IN  IF url = Raised
           THEN \* an exception leaves find_car at line 189: on_command_error, lines 201-204
                /\ lastSent' = Set(lastSent, f, "error")
                /\ UNCHANGED image_url
           ELSE /\ image_url' = Set(image_url, f, url)
                /\ lastSent' = Set(lastSent, f, IF url = NoText THEN "no_image" ELSE "result")
    /\ lastCall' = Set(lastCall, f, "send")
    /\ pc' = Set(pc, f, "done")
    /\ UNCHANGED <<catalogVars, brands, brandVars, trimVars, pageVars, taskVars, result,
                   resolverCalls, resolverArgs, requests, logVars>>

----------------------------------------------------------------------------
(* Specifications *)

FlowStep(F) ==
    \E f \in F :
        \/ Invoke(f)
        \/ BrandResume(f)
        \/ ModelsPosted(f)
        \/ ModelResume(f)
        \/ TurnDone(f)
        \/ NoticeDone(f)
        \/ \E t \in {"msg", "react"} : TimeoutFire(f, t)
        \/ \E resp \in Responses : ImageResponse(f, resp)

Reactions(U, F, obs) ==
    \E u \in U, e \in Emojis, target \in F \cup {"other"} : ReactionEvent(u, e, target, obs)

\* One invocation of the command, by user u1 in channel c1; the user types and reacts
\* without limit, the latest reply is remembered.
Next ==
    \/ FlowStep({"f1"})
    \/ \E c \in Contents : MessageEvent("u1", "c1", c, Observe(1, FALSE, FALSE))
    \/ Reactions({"u1"}, {"f1"}, Observe(1, FALSE, FALSE))
    \/ Tick

Spec == Init /\ [][Next]_vars

\* what the user of the end-to-end example types
ExampleContents ==
    { <<"H", "o", "n", "d", "a">>, <<"C", "i", "v", "i", "c">>, <<"2", "0", "2", "0">>,
      <<"1">>, <<"2">> }

\* The end-to-end example: the Honda catalog, a user who types at most MaxInputs replies,
\* all of which are remembered.
NextExample ==
    \/ FlowStep({"f1"})
    \/ \E c \in ExampleContents :
          /\ Len(inputs["f1"]) < MaxInputs
          /\ MessageEvent("u1", "c1", c, Observe(MaxInputs, FALSE, FALSE))
    \/ Reactions({"u1"}, {"f1"}, Observe(MaxInputs, FALSE, FALSE))
    \/ Tick

SpecExample == InitExample /\ [][NextExample]_vars

\* a catalog whose first brand has two pages of trims
InitMulti == InitWith(TwoMakeRows(PageSize + 1))

\* what the users of the concurrent flows type: the make id of Acura, its first trim id
MultiContents == { <<"2">>, <<"3">> }

\* Two invocations of the command running concurrently, by the users u1 and u2 in the
\* channel c1; nothing of the traffic is remembered.
NextMulti ==
    \/ FlowStep(Flows)
    \/ \E u \in Users, c \in MultiContents :
          MessageEvent(u, "c1", c, Observe(0, FALSE, FALSE))
    \/ Reactions(Users, Flows, Observe(0, FALSE, FALSE))
    \/ Tick

SpecMulti == InitMulti /\ [][NextMulti]_vars

\* what the users type where every dispatched event is logged: the make id of Acura, its
\* first trim id, a number with a leading blank, a name
EventContents ==
    { <<"2">>, <<"3">>, <<" ", "2">>, <<"H", "o", "n", "d", "a">> }

\* One invocation of the command by user u1 in channel c1, with the traffic of both
\* users in both channels: messages, and reactions with every emoji on the model-list
\* message of the flow and on another message; the dispatched event is logged.
NextEvents ==
    \/ FlowStep({"f1"})
    \/ \E u \in Users, ch \in Channels, c \in EventContents :
          MessageEvent(u, ch, c, Observe(0, TRUE, FALSE))
    \/ Reactions(Users, {"f1"}, Observe(0, TRUE, FALSE))
    \/ Tick

SpecEvents == InitMulti /\ [][NextEvents]_vars

\* One invocation of the command by user u1 in channel c1, the user sending at most
\* MaxSent messages and reactions in all.
NextLive ==
    \/ FlowStep({"f1"})
    \/ \E c \in MultiContents :
          /\ sent < MaxSent
          /\ MessageEvent("u1", "c1", c, Observe(0, FALSE, TRUE))
    \/ /\ sent < MaxSent
       /\ Reactions({"u1"}, {"f1"}, Observe(0, FALSE, TRUE))
    \/ Tick

\* The event loop runs a coroutine that is ready to go on, calls to Discord and the
\* search request return, time passes and the timeout of a pending wait fires.
SpecLive ==
    InitMulti /\ [][NextLive]_vars /\ WF_vars(FlowStep({"f1"})) /\ WF_vars(Tick)

----------------------------------------------------------------------------
(* Claims *)

\* the flow has reached the model step: the model list of the chosen brand is paginated
InModelStep(f) == selected_brand[f] # None

CeilDiv(a, b) == IF a % b = 0 THEN a \div b ELSE a \div b + 1

\* C1: once the option list of the model step (length L) is paginated with page size 10,
\* the number of pages is ceil(L/10) and, whatever page-turn signals have been processed,
\* current_page is within 0..totalPages-1 and pages[current_page] is a non-empty page.
C1_PageIndexInRange ==
    \A f \in Flows :
        InModelStep(f) =>
            /\ Len(pages[f]) = CeilDiv(Len(models[f]), PageSize)
            /\ current_page[f] \in 0..(Len(pages[f]) - 1)
            /\ PageAt(pages[f], current_page[f]) # <<>>

\* C1 witness: a list of more than two pages, the last page reached by a page turn
C1_Witness ==
    \E f \in Flows :
        /\ Len(pages[f]) > 2
        /\ Len(models[f]) % PageSize # 0
        /\ current_page[f] = Len(pages[f]) - 1
        /\ result[f].kind = "reaction"

----------------------------------------------------------------------------
(* Vocabulary of the claims, independent of the operators of the flow *)

\* the entries of a list whose trim id is id
EntriesWithId(ms, id) == {i \in 1..Len(ms) : ms[i].trim_id = id}

\* the brands whose make id is id
BrandsWithId(b, id) == {i \in 1..Len(b) : b[i][2] = id}

\* str.lower() on the letters that occur in Contents
LowerChar(ch) == CASE ch = "H" -> "h" [] ch = "C" -> "c" [] OTHER -> ch
Normalize(s) == [i \in 1..Len(Strip(s)) |-> LowerChar(Strip(s)[i])]

\* the reply matches the entry's number case-insensitively, ignoring surrounding whitespace
MatchesLoosely(content, id) == Normalize(content) = Normalize(id)

\* in this step flow f is resumed from a wait cycle of which a wait has ended
Resumed(f) == Waiting(f) /\ DoneSet(f) # {} /\ msgTask'[f] = NoTask

\* in this step flow f is resumed from a wait cycle with a result of the given kind
Took(f, kind) == Resumed(f) /\ result'[f].kind = kind

\* everything the flow holds: its place, its locals, its waits, what it has sent
FlowState(f) ==
    <<pc[f], brands[f], selected_make_id[f], selected_brand[f], models[f], pages[f],
      current_page[f], rendered[f], selected_trim_id[f], selected_model[f],
      selected_year[f], msgTask[f], reactTask[f], result[f], lastSent[f], lastCall[f],
      listPosts[f], image_url[f], resolverCalls[f], resolverArgs[f], requests[f],
      response[f]>>

\* the accumulated selections of the flow
Selections(f) == <<selected_brand[f], selected_model[f], selected_year[f]>>

\* a flow that has ended takes no further step and no further input
DoneIsFinal == \A f \in Flows : pc[f] = "done" => FlowState(f)' = FlowState(f)

\* the latest reply of the requesting user
LastInput(f) == inputs[f][Len(inputs[f])]

----------------------------------------------------------------------------
(* C2 *)

\* C2 as stated: a reply typed while the selector of the model step is showing a page
\* and waiting for a reply, and that matches an entry of the full list case-insensitively,
\* ignoring surrounding whitespace, always resolves the selector to that entry: when the
\* flow has ended, that entry is the selection.
C2_LooseMatchResolves ==
    \A f \in Flows :
        (/\ pc[f] = "done"
         /\ inputs[f] # <<>>
         /\ LastInput(f).during = "model_wait"
         /\ LastInput(f).pending)
        => \A i \in 1..Len(models[f]) :
              MatchesLoosely(LastInput(f).content, models[f][i].trim_id)
              => /\ selected_trim_id[f] = models[f][i].trim_id
                 /\ resolverCalls[f] = 1

\* C2 amended: only a reply made of digits only completes the message wait, and such a
\* reply that equals the trim id of an entry of the brand's full list resolves the
\* selector to the first such entry whenever it is the result the loop takes from its
\* wait cycle, whatever page is showing.
C2_DigitReplyResolves ==
    /\ [][\A f \in Flows :
             (msgTask'[f].st = "done" /\ msgTask[f].st # "done") => IsDigit(msgTask'[f].val)]_vars
    /\ [][\A f \in Flows :
          (/\ pc[f] = "model_wait"
           /\ Took(f, "message")
           /\ EntriesWithId(models[f], result'[f].val) # {})
          => LET i == CHOOSE k \in EntriesWithId(models[f], result'[f].val) :
                         \A j \in EntriesWithId(models[f], result'[f].val) : k <= j
             IN  /\ pc'[f] = "resolving"
                 /\ selected_trim_id'[f] = models[f][i].trim_id
                 /\ selected_model'[f] = models[f][i].model
                 /\ selected_year'[f] = models[f][i].year
                 /\ current_page'[f] = current_page[f]]_vars

\* C2 witness: the selector is resolved to an entry that is not on the visible page
C2_Witness ==
    \E f \in Flows :
        /\ pc[f] = "resolving"
        /\ current_page[f] > 0
        /\ EntriesWithId(models[f], selected_trim_id[f]) # {}
        /\ EntriesWithId(PageAt(pages[f], current_page[f]), selected_trim_id[f]) = {}

----------------------------------------------------------------------------
(* C3 *)

\* C3 as stated: in every selector step, a reply that matches no option leaves the
\* selector showing the same page with the same selections and sends an invalid-selection
\* notice, and the flow goes on to a new wait cycle.
C3_InvalidReplyStaysInEveryStep ==
    [][\A f \in Flows :
          (/\ Took(f, "message")
           /\ \/ pc[f] = "brand_wait"
                 /\ BrandsWithId(car_brands, Strip(result'[f].val)) = {}
              \/ pc[f] = "model_wait"
                 /\ EntriesWithId(models[f], Strip(result'[f].val)) = {})
          => /\ pc'[f] # "done"
             /\ lastSent'[f] \in {"invalid_brand", "invalid_model"}
             /\ current_page'[f] = current_page[f]
             /\ Selections(f)' = Selections(f)]_vars

\* C3 amended: in the model step, a reply taken by the loop that matches no trim id of
\* the brand leaves the page index, the rendered page and the selections unchanged and
\* sends the invalid-model notice; when the notice is out, a new wait cycle starts with
\* both waits pending and a full timeout window.
C3_InvalidModelReplyStays ==
    /\ [][\A f \in Flows :
             (/\ pc[f] = "model_wait"
              /\ Took(f, "message")
              /\ EntriesWithId(models[f], Strip(result'[f].val)) = {})
             => /\ pc'[f] = "notice"
                /\ lastSent'[f] = "invalid_model"
                /\ current_page'[f] = current_page[f]
                /\ rendered'[f] = rendered[f]
                /\ Selections(f)' = Selections(f)
                /\ resolverCalls'[f] = resolverCalls[f]]_vars
    /\ [][\A f \in Flows :
             (pc[f] = "notice" /\ pc'[f] # "notice")
             => /\ pc'[f] = "model_wait"
                /\ msgTask'[f] = PendingTask
                /\ reactTask'[f] = PendingTask
                /\ elapsed'[f] = 0
                /\ current_page'[f] = current_page[f]
                /\ rendered'[f] = rendered[f]
                /\ Selections(f)' = Selections(f)]_vars

\* C3 witness: after an invalid reply on a later page, the new cycle waits on that page
C3_Witness ==
    \E f \in Flows :
        /\ pc[f] = "model_wait"
        /\ lastSent[f] = "invalid_model"
        /\ result[f].kind = "message"
        /\ current_page[f] > 0
        /\ msgTask[f] = PendingTask
        /\ reactTask[f] = PendingTask
        /\ elapsed[f] = 0

----------------------------------------------------------------------------
(* C4 *)

\* a wait of the cycle has ended and none of them with an event: only timeouts
OnlyTimeouts(f) ==
    /\ Waiting(f)
    /\ DoneSet(f) # {}
    /\ msgTask[f].st # "done"
    /\ reactTask[f].st # "done"

\* C4: in either step, when the waits of a cycle end without a reply or a page-turn
\* signal, the timeouts having fired only after the full window, the flow sends the
\* timeout notice and ends without a call of the image resolver; a flow that has ended
\* processes no later input.
C4_TimeoutAborts ==
    /\ [](\A f \in Flows : OnlyTimeouts(f) => elapsed[f] >= TIMEOUT)
    /\ [][\A f \in Flows :
             (OnlyTimeouts(f) /\ Resumed(f))
             => /\ pc'[f] = "done"
                /\ result'[f].kind = "timeout"
                /\ lastSent'[f] = "timeout"
                /\ lastCall'[f] = "send"
                /\ resolverCalls'[f] = 0]_vars
    /\ [][DoneIsFinal]_vars

\* C4 witness: the model step has timed out and the user has typed a reply afterwards
C4_Witness ==
    \E f \in Flows :
        /\ pc[f] = "done"
        /\ result[f].kind = "timeout"
        /\ lastSent[f] = "timeout"
        /\ InModelStep(f)
        /\ resolverCalls[f] = 0
        /\ inputs[f] # <<>>
        /\ LastInput(f).during = "done"
        /\ IsDigit(LastInput(f).content)

----------------------------------------------------------------------------
(* C5 *)

\* the page-turn signal taken in this step would leave the page range
TurnLeavesRange(f) ==
    /\ pc[f] = "model_wait"
    /\ Took(f, "reaction")
    /\ \/ result'[f].val = RightArrow /\ current_page[f] = Len(pages[f]) - 1
       \/ result'[f].val = LeftArrow /\ current_page[f] = 0

\* C5: a next-page signal on the last page and a prev-page signal on page 0 leave the
\* page index and the rendered option list as they were, and the selector goes on
\* showing that page: the loop starts its next wait cycle.
C5_TurnOutOfRangeIsNoOp ==
    /\ [][\A f \in Flows :
             TurnLeavesRange(f)
             => /\ current_page'[f] = current_page[f]
                /\ rendered'[f] = rendered[f]
                /\ rendered'[f] = RenderPage(PageAt(pages[f], current_page[f]))
                /\ Selections(f)' = Selections(f)
                /\ lastSent'[f] = lastSent[f]
                /\ pc'[f] = "turning"]_vars
    /\ [][\A f \in Flows :
             (pc[f] = "turning" /\ pc'[f] # "turning")
             => /\ pc'[f] = "model_wait"
                /\ current_page'[f] = current_page[f]
                /\ rendered'[f] = rendered[f]]_vars

\* C5 witness: on a list of one page, where page 0 is the last page, a next-page signal
\* has been processed and the same page is showing
C5_Witness ==
    \E f \in Flows :
        /\ pc[f] = "turning"
        /\ Len(pages[f]) = 1
        /\ result[f] = [kind |-> "reaction", val |-> RightArrow]
        /\ current_page[f] = 0
        /\ rendered[f] = RenderPage(PageAt(pages[f], 0))

----------------------------------------------------------------------------
(* C6 *)

\* what the flow is handed when it takes the wait t of the cycle
Outcome(f, t) ==
    LET task == IF t = "msg" THEN msgTask[f] ELSE reactTask[f]
    IN  IF task.st = "timeout" THEN [kind |-> "timeout", val |-> <<>>]
        ELSE [kind |-> IF t = "msg" THEN "message" ELSE "reaction", val |-> task.val]

\* C6: a wait cycle of the model step processes exactly one event, and when a message
\* and a page-turn signal are both there it is the one that arrived first; the other
\* one changes neither the page nor the selection nor what is sent.
C6_FirstArrivalWins ==
    [][\A f \in Flows :
          (pc[f] = "model_wait" /\ Resumed(f))
          => /\ firstDone[f] \in {"msg", "react"}
             /\ result'[f] = Outcome(f, firstDone[f])
             /\ (result'[f].kind = "message" => current_page'[f] = current_page[f])
             /\ (result'[f].kind = "reaction" => Selections(f)' = Selections(f))]_vars

----------------------------------------------------------------------------
(* C7 *)

\* C7 as stated: an invalid selection at any step, brand or model, ends the flow at once
\* with a notice.
C7_InvalidSelectionAbortsInEveryStep ==
    [][\A f \in Flows :
          (/\ Took(f, "message")
           /\ \/ pc[f] = "brand_wait"
                 /\ BrandsWithId(car_brands, Strip(result'[f].val)) = {}
              \/ pc[f] = "model_wait"
                 /\ EntriesWithId(models[f], Strip(result'[f].val)) = {})
          => /\ pc'[f] = "done"
             /\ lastSent'[f] \in {"invalid_brand", "invalid_model"}]_vars

\* C7 amended: an invalid selection at the brand step, like a timeout at either step,
\* ends the flow at once with a notice and without a call of the resolver, and the ended
\* flow neither retries nor takes further input; an invalid selection at the model step
\* does not end the flow.
C7_InvalidBrandAborts ==
    /\ [][\A f \in Flows :
             (/\ pc[f] = "brand_wait"
              /\ Took(f, "message")
              /\ BrandsWithId(car_brands, Strip(result'[f].val)) = {})
             => /\ pc'[f] = "done"
                /\ lastSent'[f] = "invalid_brand"
                /\ lastCall'[f] = "send"
                /\ Selections(f)' = <<None, None, None>>
                /\ resolverCalls'[f] = 0]_vars
    /\ [][\A f \in Flows :
             (/\ pc[f] = "model_wait"
              /\ Took(f, "message")
              /\ EntriesWithId(models[f], Strip(result'[f].val)) = {})
             => pc'[f] # "done"]_vars
    /\ [][\A f \in Flows : Took(f, "timeout") => pc'[f] = "done" /\ lastSent'[f] = "timeout"]_vars
    /\ [][DoneIsFinal]_vars

\* C7 witness: the flow has ended on an invalid brand number, and the user has typed a
\* valid brand number afterwards
C7_Witness ==
    \E f \in Flows :
        /\ pc[f] = "done"
        /\ lastSent[f] = "invalid_brand"
        /\ BrandsWithId(car_brands, selected_make_id[f]) = {}
        /\ inputs[f] # <<>>
        /\ LastInput(f).during = "done"
        /\ BrandsWithId(car_brands, LastInput(f).content) # {}

----------------------------------------------------------------------------
(* C8 *)

\* how a flow can end
Endings == {"invalid_brand", "timeout", "no_image", "result"}

\* C8: whenever find_car has ended, the last call it made was a send, and what it sent
\* last is the notice or the result embed of the way it ended: the invalid-brand notice,
\* the timeout notice, the no-image notice or the result embed.
C8_EveryEndingIsVisible ==
    \A f \in Flows :
        pc[f] = "done" =>
            /\ lastCall[f] = "send"
            /\ lastSent[f] \in Endings
            /\ (lastSent[f] = "invalid_brand" <=> (result[f].kind = "message" /\ ~InModelStep(f)))
            /\ (lastSent[f] = "timeout" <=> result[f].kind = "timeout")
            /\ (lastSent[f] = "no_image" <=> (resolverCalls[f] = 1 /\ image_url[f] = NoText))
            /\ (lastSent[f] = "result" <=> (resolverCalls[f] = 1 /\ image_url[f] # NoText))

\* C8 witness: the flow has ended on a timeout of the model step after a page turn
C8_Witness ==
    \E f \in Flows :
        /\ pc[f] = "done"
        /\ InModelStep(f)
        /\ current_page[f] > 0
        /\ result[f].kind = "timeout"
        /\ lastSent[f] = "timeout"

----------------------------------------------------------------------------
(* C9 *)

\* C9 as stated: brand, model and year are resolved by three selector steps in this
\* order, none merged with another: no step of the flow resolves two of them, the model
\* is resolved after the brand and the year after the model, and the resolver is called
\* at most once and only when all three are resolved.
C9_ThreeSeparateSteps ==
    /\ [](\A f \in Flows :
             /\ (selected_year[f] # None => selected_model[f] # None)
             /\ (selected_model[f] # None => selected_brand[f] # None)
             /\ resolverCalls[f] <= 1
             /\ (resolverCalls[f] = 1 => None \notin {selected_brand[f], selected_model[f],
                                                       selected_year[f]}))
    /\ [][\A f \in Flows :
             Cardinality({i \in 1..3 : Selections(f)'[i] # Selections(f)[i]}) <= 1]_vars

\* C9 amended: the flow runs two selector steps in the fixed order brand, then trim of
\* the chosen brand, the trim step resolving model and year together; the second step
\* starts only when the first has resolved, and the resolver is called at most once, only
\* when brand, model and year are resolved, and with them.
C9_BrandThenTrim ==
    \A f \in Flows :
        /\ (pc[f] \in {"idle", "brand_wait"} => Selections(f) = <<None, None, None>>)
        /\ (pc[f] \in {"post_models", "model_wait", "turning", "notice", "resolving"}
               => /\ selected_brand[f] # None
                  /\ BrandsWithId(car_brands, selected_make_id[f]) # {}
                  /\ models[f] = car_models[selected_brand[f]])
        /\ (pc[f] \in {"post_models", "model_wait", "turning", "notice"}
               => selected_model[f] = None /\ selected_year[f] = None /\ resolverCalls[f] = 0)
        /\ (selected_model[f] = None <=> selected_year[f] = None)
        /\ (selected_model[f] # None => selected_brand[f] # None)
        /\ resolverCalls[f] <= 1
        /\ (resolverCalls[f] = 1 <=> selected_model[f] # None)
        /\ (resolverCalls[f] = 1 => resolverArgs[f] = Selections(f))
        /\ (pc[f] = "resolving" \/ lastSent[f] \in {"no_image", "result"}
               => resolverCalls[f] = 1)

\* C9 witness: the resolver has been called after an invalid reply and a page turn in the
\* trim step
C9_Witness ==
    \E f \in Flows :
        /\ pc[f] = "resolving"
        /\ resolverCalls[f] = 1
        /\ resolverArgs[f] = Selections(f)
        /\ lastSent[f] = "invalid_model"
        /\ current_page[f] > 0

----------------------------------------------------------------------------
(* C10, under SpecExample *)

Honda == <<"H", "o", "n", "d", "a">>
Civic == <<"C", "i", "v", "i", "c">>
Y2020 == <<"2", "0", "2", "0">>

\* what the user has typed, oldest first
Typed(f) == [i \in 1..Len(inputs[f]) |-> inputs[f][i].content]

\* every reply was typed while the flow was running
TypedInTime(f) == \A i \in 1..Len(inputs[f]) : inputs[f][i].during # "done"

\* C10 as stated: with the catalog {Honda: {Civic: {2020, 2021}}}, a user who replies
\* "Honda", then "Civic", then "2020" has the resolver called with ("Honda", "Civic",
\* "2020") by the time the flow has ended.
C10_NamesReachResolver ==
    \A f \in Flows :
        (pc[f] = "done" /\ Typed(f) = <<Honda, Civic, Y2020>> /\ TypedInTime(f))
        => resolverCalls[f] = 1 /\ resolverArgs[f] = <<"Honda", "Civic", "2020">>

\* C10 amended: with the catalog whose rows give Honda the make id 1 and Civic 2020 the
\* trim id 1, a flow whose brand wait has taken the reply "1" and whose model-step loop
\* has taken the reply "1" calls the resolver exactly once, with ("Honda", "Civic", "2020").
C10_NumbersReachResolver ==
    \A f \in Flows :
        (selected_make_id[f] = <<"1">> /\ selected_trim_id[f] = <<"1">>)
        => /\ pc[f] \in {"resolving", "done"}
           /\ resolverCalls[f] = 1
           /\ resolverArgs[f] = <<"Honda", "Civic", "2020">>

\* C10 witness: the user has typed "1" and "1" and nothing else, and the flow has ended
\* with the result embed
C10_Witness ==
    \E f \in Flows :
        /\ pc[f] = "done"
        /\ Typed(f) = << <<"1">>, <<"1">> >>
        /\ resolverArgs[f] = <<"Honda", "Civic", "2020">>
        /\ lastSent[f] = "result"

----------------------------------------------------------------------------
(* C11 *)

\* the places of the model-step loop
LoopPlaces == {"model_wait", "turning", "notice"}

\* the reply taken in this step of the model-step loop matches no trim id of the brand
TookInvalidModel(f) ==
    /\ pc[f] = "model_wait"
    /\ Took(f, "message")
    /\ EntriesWithId(models[f], Strip(result'[f].val)) = {}

\* C11: within one flow the selections only widen: the year is set only when the model
\* is and the model only when the brand is; a selection that is set is never changed or
\* cleared by any later step of the flow; a page turn and an invalid reply, and the calls
\* that follow them up to the next wait cycle, leave the three selections as they were.
C11_SelectionsOnlyWiden ==
    /\ [](\A f \in Flows :
             /\ (selected_year[f] # None => selected_model[f] # None)
             /\ (selected_model[f] # None => selected_brand[f] # None))
    /\ [][\A f \in Flows : \A i \in 1..3 :
             Selections(f)[i] # None => Selections(f)'[i] = Selections(f)[i]]_vars
    /\ [][\A f \in Flows :
             (\/ Took(f, "reaction")
              \/ TookInvalidModel(f)
              \/ pc[f] \in {"turning", "notice"})
             => Selections(f)' = Selections(f)]_vars

\* C11 witness: all three selections are set and the flow has ended with the result
\* embed, after a page turn in the model step
C11_Witness ==
    \E f \in Flows :
        /\ pc[f] = "done"
        /\ lastSent[f] = "result"
        /\ None \notin {selected_brand[f], selected_model[f], selected_year[f]}
        /\ current_page[f] > 0
        /\ EntriesWithId(models[f], selected_trim_id[f]) # {}

----------------------------------------------------------------------------
(* C12 *)

\* the response has a success status and a body whose query.search has a hit
SuccessWithHit(resp) == resp.kind = "json" /\ resp.status = StatusOK /\ Len(resp.search) >= 1

\* C12: a call of get_image_url issues exactly one search request, none before the call
\* and no second one; once the response is in, the flow holds a URL exactly when the
\* status was success and query.search had a hit, and None for zero hits, a non-success
\* status, a transport failure and a malformed body; no exception reaches the flow, which
\* sends the no-image notice when it holds None and the result embed otherwise.
C12_OneRequestUrlOrNone ==
    \A f \in Flows :
        /\ requests[f] = resolverCalls[f]
        /\ requests[f] <= 1
        /\ (pc[f] = "resolving" => requests[f] = 1 /\ response[f] = NoResponse)
        /\ (response[f] # NoResponse =>
              /\ pc[f] = "done"
              /\ requests[f] = 1
              /\ image_url[f] # Raised
              /\ lastSent[f] # "error"
              /\ (image_url[f] # NoText <=> SuccessWithHit(response[f]))
              /\ (image_url[f] = NoText <=> lastSent[f] = "no_image")
              /\ (image_url[f] # NoText <=> lastSent[f] = "result"))

\* C12 witness: the body of the response was malformed, and the flow has sent the
\* no-image notice after its one request
C12_Witness ==
    \E f \in Flows :
        /\ pc[f] = "done"
        /\ response[f].kind = "malformed"
        /\ requests[f] = 1
        /\ image_url[f] = NoText
        /\ lastSent[f] = "no_image"

----------------------------------------------------------------------------
(* C13, under SpecMulti *)

\* flow f ends in this step
Ends(f) == pc[f] # "done" /\ pc'[f] = "done"

\* a step of flow g itself, or the passing of time, is possible
CanGoOn(g) == ENABLED FlowStep({g}) \/ ENABLED Tick

\* C13: with two flows running concurrently, the step in which one flow ends, by a
\* timeout or in any other way, changes nothing of any other flow: its place, its page
\* index, its selections, its pending waits and the time they have been waiting are as
\* before, and so is the catalog; and whenever one flow has ended, a flow that is still
\* running is not stuck: it can take its next step or wait on.
C13_EndingCancelsOnlyItself ==
    /\ [][\A f \in Flows : \A g \in Flows \ {f} :
             Ends(f) => /\ FlowState(g)' = FlowState(g)
                        /\ elapsed'[g] = elapsed[g]
                        /\ firstDone'[g] = firstDone[g]
                        /\ catalogVars' = catalogVars]_vars
    /\ [](\A f \in Flows : \A g \in Flows \ {f} :
             (pc[f] = "done" /\ pc[g] \notin {"idle", "done"}) => CanGoOn(g))

\* C13 witness: one flow has ended on a timeout in its brand step, the other has since
\* turned a page and completed with the result embed
C13_Witness ==
    \E f \in Flows : \E g \in Flows \ {f} :
        /\ pc[f] = "done"
        /\ result[f].kind = "timeout"
        /\ pc[g] = "done"
        /\ current_page[g] > 0
        /\ lastSent[g] = "result"

----------------------------------------------------------------------------
(* C14 *)

\* C14: the model step has a single option-list message: from the moment the list is
\* posted the number of option-list messages posted by the flow is 1, and a page-turn
\* signal taken by the loop edits that message, showing the page the index now points to,
\* and posts nothing.
C14_SingleListMessage ==
    /\ [](\A f \in Flows :
             /\ listPosts[f] <= 1
             /\ (InModelStep(f) => listPosts[f] = 1))
    /\ [][\A f \in Flows :
             (pc[f] = "model_wait" /\ Took(f, "reaction"))
             => /\ listPosts'[f] = listPosts[f]
                /\ lastCall'[f] = "edit"
                /\ lastSent'[f] = lastSent[f]
                /\ rendered'[f] = RenderPage(PageAt(pages[f], current_page'[f]))]_vars

\* C14 witness: the third page is showing after two page turns, in the one message
C14_Witness ==
    \E f \in Flows :
        /\ pc[f] = "turning"
        /\ current_page[f] = 2
        /\ lastCall[f] = "edit"
        /\ listPosts[f] = 1
        /\ rendered[f] = RenderPage(PageAt(pages[f], 2))

----------------------------------------------------------------------------
(* C15 *)

\* the makes that are keys of car_brands
BrandKeys == {car_brands[i][1] : i \in 1..Len(car_brands)}

\* the catalog is the one the import built from one of the CSV files
AsBuilt ==
    \E rows \in Catalogs :
        /\ car_brands = SortBrands(BuildBrands(rows, <<>>), <<>>)
        /\ car_models = BuildModels(rows)

\* C15: no step of a command and no event changes car_brands or car_models: in every
\* state they are what the import built, the keys of car_models are the makes of
\* car_brands, and the lookup car_models[selected_brand] is always for a key that is
\* there, so that the defaultdict inserts nothing.
C15_CatalogUnchanged ==
    /\ [][car_brands' = car_brands /\ car_models' = car_models]_vars
    /\ [](/\ AsBuilt
          /\ DOMAIN car_models = BrandKeys
          /\ \A f \in Flows : selected_brand[f] # None => selected_brand[f] \in DOMAIN car_models)

\* C15 witness: a flow has looked up the models of its brand, turned a page, taken an
\* invalid reply and timed out, and the catalog has its two brands and their lists
C15_Witness ==
    \E f \in Flows :
        /\ pc[f] = "done"
        /\ result[f].kind = "timeout"
        /\ current_page[f] > 0
        /\ selected_trim_id[f] # NoText
        /\ models[f] = car_models[selected_brand[f]]
        /\ BrandKeys = {"Acura", "Honda"}
        /\ DOMAIN car_models = BrandKeys

----------------------------------------------------------------------------
(* C16 *)

\* (brand, model, year) is an entry of the catalog with the given trim id
IsCatalogEntry(brand, model, year, id) ==
    /\ brand \in BrandKeys
    /\ \E i \in 1..Len(car_models[brand]) :
          car_models[brand][i] = [model |-> model, year |-> year, trim_id |-> id]

\* the trim id belongs to a brand other than the given one, and not to the given one
OnlyOfAnotherBrand(id, brand) ==
    /\ EntriesWithId(car_models[brand], id) = {}
    /\ \E b \in DOMAIN car_models \ {brand} : EntriesWithId(car_models[b], id) # {}

\* C16: whenever the flow has called get_image_url, the arguments of the call form an
\* entry of the catalog: the brand is a key of car_brands and model and year are those of
\* the tuple of car_models[brand] that has the trim id the user typed; a reply with a trim
\* id that only another brand has is answered with the invalid-model notice and no call.
C16_ResolverArgsAreCatalogEntry ==
    /\ [](\A f \in Flows :
             resolverCalls[f] >= 1
             => /\ Len(resolverArgs[f]) = 3
                /\ resolverArgs[f][1] = selected_brand[f]
                /\ IsCatalogEntry(resolverArgs[f][1], resolverArgs[f][2], resolverArgs[f][3],
                                  selected_trim_id[f]))
    /\ [][\A f \in Flows :
             (/\ pc[f] = "model_wait"
              /\ Took(f, "message")
              /\ OnlyOfAnotherBrand(Strip(result'[f].val), selected_brand[f]))
             => /\ pc'[f] = "notice"
                /\ lastSent'[f] = "invalid_model"
                /\ resolverCalls'[f] = 0]_vars

\* C16 witness: in the model step of one brand the user has typed a trim id of the other
\* brand and has got the invalid-model notice
C16_Witness ==
    \E f \in Flows :
        /\ pc[f] = "notice"
        /\ lastSent[f] = "invalid_model"
        /\ OnlyOfAnotherBrand(selected_trim_id[f], selected_brand[f])
        /\ resolverCalls[f] = 0

----------------------------------------------------------------------------
(* C17, under SpecEvents *)

\* an event is dispatched in this step
Dispatched == event'.n # event.n

\* the event is one the session of flow f listens for: a numeric message of its user in
\* its channel, or a page-turn reaction of its user on its model-list message
ForSession(ev, f) ==
    \/ /\ ev.kind = "message"
       /\ ev.user = CtxAuthor(f)
       /\ ev.channel = CtxChannel(f)
       /\ ev.content # <<>>
       /\ \A i \in 1..Len(ev.content) : ev.content[i] \in Digits
    \/ /\ ev.kind = "reaction"
       /\ ev.user = CtxAuthor(f)
       /\ ev.content \in {LeftArrow, RightArrow}
       /\ ev.target = f

\* C17: an event that does not pass the filters of a session (a message of another user,
\* in another channel or not numeric; a reaction of another user, with another emoji or
\* on another message) leaves the session as it was: its place, page index, selections,
\* waits, what it has sent and called, and the time its waits have been waiting.
C17_FilteredEventsChangeNothing ==
    [][\A f \in Flows :
          (Dispatched /\ ~ForSession(event', f))
          => /\ FlowState(f)' = FlowState(f)
             /\ elapsed'[f] = elapsed[f]
             /\ firstDone'[f] = firstDone[f]]_vars

\* C17 witness: while the model step has been waiting for a while, the other user has
\* sent a numeric message in the channel of the session, and both waits are still pending
C17_Witness ==
    /\ event.kind = "message"
    /\ event.user = "u2"
    /\ event.channel = CtxChannel("f1")
    /\ IsDigit(event.content)
    /\ pc["f1"] = "model_wait"
    /\ elapsed["f1"] = TickLen
    /\ msgTask["f1"] = PendingTask
    /\ reactTask["f1"] = PendingTask

----------------------------------------------------------------------------
(* C18 *)

\* the latest reply of the requesting user was typed while the loop of the model step
\* was between two wait cycles, and it is a trim id of the chosen brand
TypedBetweenCycles(f) ==
    /\ inputs[f] # <<>>
    /\ LastInput(f).during \in {"turning", "notice"}
    /\ IsDigit(LastInput(f).content)
    /\ EntriesWithId(models[f], LastInput(f).content) # {}

\* C18: no input of the requesting user is lost during the model step, also not one that
\* arrives while the loop edits the message, removes a reaction or sends a notice: when
\* the flow has ended and the latest reply was a trim id of the brand typed between two
\* wait cycles, the loop has processed that reply, so the step was left by the selection
\* of that trim and the resolver was called.
C18_NoInputLost ==
    \A f \in Flows :
        (pc[f] = "done" /\ TypedBetweenCycles(f))
        => /\ selected_trim_id[f] = LastInput(f).content
           /\ resolverCalls[f] = 1

----------------------------------------------------------------------------
(* C19, under SpecLive *)

\* C19: when the requesting user sends finitely many inputs, every invocation of the
\* command ends.  The brand step is left by the one resumption of its wait, with a reply
\* or a timeout; the loop of the model step is left only by a reply that is a trim id of
\* the brand (on to the resolver) or by a timeout (the flow ends); a page turn and an
\* invalid reply each lead to one new wait cycle, both waits pending and the window full.
C19_EveryInvocationEnds ==
    /\ \A f \in Flows : (pc[f] # "idle") ~> (pc[f] = "done")
    /\ [][\A f \in Flows :
             (pc[f] = "brand_wait" /\ pc'[f] # "brand_wait")
             => /\ Resumed(f)
                /\ result'[f].kind \in {"message", "timeout"}
                /\ pc'[f] \in {"done", "post_models"}]_vars
    /\ [][\A f \in Flows :
             (pc[f] \in LoopPlaces /\ pc'[f] \notin LoopPlaces)
             => \/ /\ pc'[f] = "resolving"
                   /\ result'[f].kind = "message"
                   /\ EntriesWithId(models[f], Strip(result'[f].val)) # {}
                \/ /\ pc'[f] = "done"
                   /\ result'[f].kind = "timeout"]_vars
    /\ [][\A f \in Flows :
             (pc[f] = "model_wait" /\ (Took(f, "reaction") \/ TookInvalidModel(f)))
             => pc'[f] \in {"turning", "notice"}]_vars
    /\ [][\A f \in Flows :
             (pc[f] \in {"turning", "notice"} /\ pc'[f] # pc[f])
             => /\ pc'[f] = "model_wait"
                /\ msgTask'[f] = PendingTask
                /\ reactTask'[f] = PendingTask
                /\ elapsed'[f] = 0]_vars

\* C19 witness: the user has sent all the inputs there are, among them a page turn and an
\* invalid reply in the model step, and the flow has ended on the timeout of the loop
C19_Witness ==
    \E f \in Flows :
        /\ pc[f] = "done"
        /\ sent = MaxSent
        /\ current_page[f] > 0
        /\ selected_trim_id[f] # NoText
        /\ result[f].kind = "timeout"
        /\ lastSent[f] = "timeout"

====
